---- MODULE Spec2Model ----
(***************************************************************************)
(* Frontend Arena registration backend (src/server.js).                    *)
(*                                                                         *)
(* The model follows the Express route handlers of server.js as they run   *)
(* against the mongoose model `Registration` compiled from                 *)
(* RegistrationSchema.  The handlers close over the module-level           *)
(* `const Registration`; the MockRegistration that startServer assigns to  *)
(* `global.Registration` is shadowed by that const and is never called,    *)
(* so when mongoose.connect fails every store operation of a handler       *)
(* rejects (mongoose's buffering times out) and the handler answers 500.   *)
(*                                                                         *)
(* A register request runs in three steps, as the event loop runs it:      *)
(*   RegisterBegin  upload middleware, validation, `new Registration(..)`  *)
(*                  (reads registrationCounter), then `await save()`       *)
(*   SaveCommit     the store performs (or rejects) the insert             *)
(*   RegisterFinish the continuation: registrationCounter++ and 201, or    *)
(*                  the catch block's 500                                  *)
(* Other requests may run between these steps.                             *)
(*                                                                         *)
(* Time is read only by RegisterBegin (Date.now() in the upload file name  *)
(* and in the schema default of registrationDate) and by UpdateStatus      *)
(* (new Date()), so the clock advances, by any amount in Elapsed, when a   *)
(* request that reads it arrives.                                          *)
(*                                                                         *)
(* Not modelled: mongoose's `_id`/`__v` bookkeeping fields, GET /,         *)
(* GET /api/health, GET /api/registrations and the uploads directory.      *)
(***************************************************************************)
EXTENDS Integers, Sequences, FiniteSets, Bags, TLC

VARIABLES
    dbConnected,          \* outcome of mongoose.connect in startServer
    registrationCounter,  \* `let registrationCounter`
    store,                \* the "event" collection, in insertion order
    inflight,             \* bag of register requests awaiting save()/its continuation
    clock,                \* Date.now() as last read
    requests,             \* number of HTTP requests received so far
    lastResp,             \* the most recent HTTP response sent
    accepted              \* history: the 201 responses sent, with what was submitted

vars == <<dbConnected, registrationCounter, store, inflight, clock, requests, lastResp, accepted>>

----------------------------------------------------------------------------
(* Bounds of the model                                                     *)

MaxRequests == 3    \* HTTP requests received in one run
MaxClock == 1       \* the clock runs 0..MaxClock

\* Time that may pass before a request arrives.
Elapsed == {0, 1}

----------------------------------------------------------------------------
(* JavaScript values                                                       *)

\* A JS number: NaN or an integer.
NaN == [nan |-> TRUE, v |-> 0]
Num(n) == [nan |-> FALSE, v |-> n]

\* JS relational operators: any comparison with NaN is false.
JsLt(a, b) == ~a.nan /\ ~b.nan /\ a.v < b.v
JsGt(a, b) == ~a.nan /\ ~b.nan /\ a.v > b.v
\* a !== b on numbers: NaN is unequal to everything, itself included.
JsStrictNeq(a, b) == a.nan \/ b.nan \/ a.v # b.v
JsMul(a, b) == IF a.nan \/ b.nan THEN NaN ELSE Num(a.v * b.v)

\* Strings that the code inspects character by character are sequences of
\* one-character strings.
Digits == <<"0", "1", "2", "3", "4", "5", "6", "7", "8", "9">>
IsDigit(c) == \E i \in 1..10 : Digits[i] = c
DigitVal(c) == (CHOOSE i \in 1..10 : Digits[i] = c) - 1
IsSpace(c) == c \in {" ", "\t", "\n"}

RECURSIVE SkipSpace(_)
SkipSpace(s) == IF s # <<>> /\ IsSpace(Head(s)) THEN SkipSpace(Tail(s)) ELSE s

RECURSIVE ParseDigits(_, _)
ParseDigits(s, acc) ==
    IF s = <<>> \/ ~IsDigit(Head(s)) THEN acc
    ELSE ParseDigits(Tail(s), acc * 10 + DigitVal(Head(s)))

\* parseInt(string) in radix 10: leading white space, an optional sign, then
\* the longest run of digits; NaN when there is no digit.
parseInt(s) ==
    LET t == SkipSpace(s)
        signed == t # <<>> /\ Head(t) \in {"+", "-"}
        neg == t # <<>> /\ Head(t) = "-"
        u == IF signed THEN Tail(t) ELSE t
    IN  IF u = <<>> \/ ~IsDigit(Head(u)) THEN NaN
        ELSE IF neg THEN Num(0 - ParseDigits(u, 0)) ELSE Num(ParseDigits(u, 0))

\* String(n) for a non-negative integer.
RECURSIVE NatToString(_)
NatToString(n) ==
    IF n < 10 THEN <<Digits[n + 1]>>
    ELSE NatToString(n \div 10) \o <<Digits[(n % 10) + 1]>>

\* str.padStart(len, ch): pads on the left up to len, never truncates.
RECURSIVE padStart(_, _, _)
padStart(s, len, ch) == IF Len(s) >= len THEN s ELSE padStart(<<ch>> \o s, len, ch)

\* `REG-${String(registrationCounter).padStart(4, '0')}`
RegId(counter) == <<"R", "E", "G", "-">> \o padStart(NatToString(counter), 4, "0")

----------------------------------------------------------------------------
(* Requests                                                                *)

\* One element of the submitted participants JSON array.  `type` tells a JSON
\* object from a JSON null; a field the object lacks reads as "" (falsy, as
\* undefined is).
Participant(name, email, phone, college, departmentYear) ==
    [type |-> "object", name |-> name, email |-> email, phone |-> phone,
     college |-> college, departmentYear |-> departmentYear,
     linkedin |-> "", portfolio |-> ""]

PA == Participant("A", "a@x.com", "1", "C", "CS-3")
PB == Participant("B", "b@x.com", "2", "C", "CS-3")
PInc == Participant("I", "i@x.com", "3", "C", "")        \* no departmentYear
PNull == [type |-> "null", name |-> "", email |-> "", phone |-> "", college |-> "",
          departmentYear |-> "", linkedin |-> "", portfolio |-> ""]

\* The `participants` form field: absent/empty, text that is not JSON, or
\* JSON text together with the value it denotes.
NoParticipants == [text |-> "", type |-> "none", elems |-> <<>>]
Garbage == [text |-> "garbage", type |-> "none", elems |-> <<>>]
JsonNull == [text |-> "json", type |-> "null", elems |-> <<>>]
JsonObject == [text |-> "json", type |-> "object", elems |-> <<>>]
JsonArray(elems) == [text |-> "json", type |-> "array", elems |-> elems]

\* The uploaded file part.
NoFile == [present |-> FALSE, type |-> "", subtype |-> "", size |-> 0, ext |-> ""]
File(type, subtype, size, ext) ==
    [present |-> TRUE, type |-> type, subtype |-> subtype, size |-> size, ext |-> ext]

MB == 1024 * 1024

TeamNames == {"", "Alpha"}
TeamSizeInputs ==
    { <<>>, <<"0">>, <<"1">>, <<"2">>, <<"3">>, <<"4">>, <<"-", "1">>,
      <<"a", "b", "c">>, <<"2", "x">>, <<" ", "1">> }
ParticipantsInputs ==
    { NoParticipants, Garbage, JsonNull, JsonObject,
      JsonArray(<<>>), JsonArray(<<PA>>), JsonArray(<<PInc>>), JsonArray(<<PNull>>),
      JsonArray(<<PA, PB>>), JsonArray(<<PA, PInc>>), JsonArray(<<PNull, PA>>),
      JsonArray(<<PA, PB, PA>>), JsonArray(<<PA, PB, PA, PB>>) }
PortfolioUrls == {"", "http://p"}
FileInputs ==
    { NoFile, File("image", "png", 2 * MB, ".png"), File("application", "pdf", MB, ".pdf"),
      File("text", "plain", MB, ".txt"), File("image", "png", 6 * MB, ".png") }

Request(teamName, teamSize, participants, portfolioUrl, file) ==
    [teamName |-> teamName, teamSize |-> teamSize, participants |-> participants,
     portfolioUrl |-> portfolioUrl, file |-> file]

\* Every submission the model considers.
AllRequests ==
    { Request(n, s, p, u, f) :
        n \in TeamNames, s \in TeamSizeInputs, p \in ParticipantsInputs,
        u \in PortfolioUrls, f \in FileInputs }

\* The submissions of the interleaving model: two acceptable ones and two
\* whose participant count is above and below teamSize.
Png == File("image", "png", 2 * MB, ".png")
MainRequests ==
    { Request("Alpha", <<"1">>, JsonArray(<<PA>>), "http://p", Png),
      Request("Alpha", <<"2">>, JsonArray(<<PA, PInc>>), "http://p", Png),
      Request("Alpha", <<"1">>, JsonArray(<<PA, PB>>), "http://p", Png),
      Request("Alpha", <<"2">>, JsonArray(<<PA>>), "http://p", Png) }

\* Math.round(Math.random() * 1E9)
RandomValues == {0}

\* Status values a client may PATCH; the handler checks none of them.
StatusInputs == {"approved", "bogus"}

----------------------------------------------------------------------------
(* Upload middleware: upload.single('paymentScreenshot')                   *)

\* fileFilter: image/* or application/pdf.
fileFilter(file) ==
    file.type = "image" \/ (file.type = "application" /\ file.subtype = "pdf")

\* limits.fileSize
fileSizeLimit == 5 * MB

\* storage.filename: fieldname-<Date.now()>-<random><extname>
filename(file, now, rnd) ==
    [fieldname |-> "paymentScreenshot", time |-> now, rnd |-> rnd, ext |-> file.ext]

NoReqFile == [fieldname |-> "", time |-> 0, rnd |-> 0, ext |-> ""]

\* What multer hands on: req.file (or none), or the error it passes to next().
upload(file, now, rnd) ==
    IF ~file.present THEN [kind |-> "next", hasFile |-> FALSE, filename |-> NoReqFile]
    ELSE IF ~fileFilter(file) THEN [kind |-> "error", error |-> "Only images and PDFs are allowed!"]
    ELSE IF file.size > fileSizeLimit THEN [kind |-> "error", error |-> "LIMIT_FILE_SIZE"]
    ELSE [kind |-> "next", hasFile |-> TRUE, filename |-> filename(file, now, rnd)]

\* The error-handling middleware.
errorHandler(error) ==
    IF error = "LIMIT_FILE_SIZE"
    THEN [status |-> 400, message |-> "File too large. Max size 5MB."]
    ELSE [status |-> 500, message |-> "Something went wrong!"]

----------------------------------------------------------------------------
(* POST /api/register: the checks before the record is built               *)

Reject(message) == [kind |-> "respond", status |-> 400, message |-> message]

\* Variant: the upper limit off by one (size > 4).
sizeOutOfRangeUpTo4(size) == JsLt(size, Num(1)) \/ JsGt(size, Num(4))

\* size < 1 || size > 3
sizeOutOfRange(size) == JsLt(size, Num(1)) \/ JsGt(size, Num(3))

\* Variant: only too few participants are refused (v.length < size), so a
\* longer list is accepted and truncated by the later slice.
countCheckTooFew(participants, size) ==
    participants.type # "array" \/ size.nan \/ Len(participants.elems) < size.v

\* Variant: only Array.isArray is checked, the length is not.
countCheckArrayOnly(participants, size) == participants.type # "array"

\* !Array.isArray(v) || v.length !== size
countCheckFails(participants, size) ==
    participants.type # "array" \/ JsStrictNeq(Num(Len(participants.elems)), size)

\* Reading a property of participantsArray[0] throws a TypeError when that
\* element is null (or undefined, for an empty array).
firstThrows(elems) == Len(elems) = 0 \/ elems[1].type = "null"

\* Variant: only the name of the first participant is required.
firstIncompleteNameOnly(p) == p.name = ""

\* The first participant lacks one of the five required fields.
firstIncomplete(p) ==
    p.name = "" \/ p.email = "" \/ p.phone = "" \/ p.college = "" \/ p.departmentYear = ""

\* Lines 130-160.  "throw" is the TypeError of reading a property of null,
\* which the handler's catch turns into 500.
validate(req, up) ==
    LET size == parseInt(req.teamSize) IN
    IF req.teamName = "" \/ req.teamSize = <<>> \/ req.participants.text = ""
         \/ req.portfolioUrl = ""
    THEN Reject("Missing required fields")
    ELSE IF sizeOutOfRange(size)
    THEN Reject("Team size must be between 1 and 3")
    ELSE IF req.participants.text # "json"
    THEN Reject("Invalid participants data format")
    ELSE IF countCheckFails(req.participants, size)
    THEN Reject("Invalid participants data")
    ELSE IF firstThrows(req.participants.elems)
    THEN [kind |-> "throw", error |-> "TypeError"]
    ELSE IF firstIncomplete(req.participants.elems[1])
    THEN Reject("First participant information is incomplete")
    ELSE IF ~up.hasFile
    THEN Reject("Payment screenshot is required")
    ELSE [kind |-> "valid", size |-> size]

\* Variant: slice(0, size - 1).
sliceDropLast(arr, size) ==
    LET n == IF size.nan \/ size.v < 1 THEN 0 ELSE size.v - 1
    IN  SubSeq(arr, 1, IF n < Len(arr) THEN n ELSE Len(arr))

\* participantsArray.slice(0, size): NaN counts as 0, the end is clamped.
slice(arr, size) ==
    LET n == IF size.nan \/ size.v < 0 THEN 0 ELSE size.v
    IN  SubSeq(arr, 1, IF n < Len(arr) THEN n ELSE Len(arr))

\* Variant: a flat fee, not multiplied by the team size.
entryFeeFlat(size) == Num(50)

entryFee(size) == JsMul(size, Num(50))

\* new Registration({...}): the fields the handler passes plus the schema
\* default of registrationDate.
newRegistration(req, size, up, counter, now) ==
    [id |-> RegId(counter),
     teamName |-> req.teamName,
     teamSize |-> size,
     participants |-> slice(req.participants.elems, size),
     portfolioUrl |-> req.portfolioUrl,
     paymentScreenshot |-> up.filename,
     entryFee |-> entryFee(size),
     registrationDate |-> now,
     status |-> "pending",
     emailSent |-> FALSE]

----------------------------------------------------------------------------
(* The store: the mongoose model compiled from RegistrationSchema          *)

\* The paths of RegistrationSchema.
SchemaPaths ==
    {"id", "teamName", "teamSize", "participants", "portfolioUrl", "paymentScreenshot",
     "entryFee", "registrationDate", "status", "emailSent"}

\* Document validation on save: required paths, and min/max of teamSize.
schemaValid(doc) ==
    /\ doc.id # <<>>
    /\ doc.teamName # ""
    /\ ~doc.teamSize.nan /\ doc.teamSize.v >= 1 /\ doc.teamSize.v <= 3
    /\ doc.portfolioUrl # ""
    /\ doc.paymentScreenshot # NoReqFile

\* Variant: the schema declares `id` without unique: true.
duplicateKeyNoIndex(coll, doc) == FALSE

\* The unique index on `id` (unique: true).
duplicateKey(coll, doc) == \E i \in 1..Len(coll) : coll[i].id = doc.id

\* doc.save(): the error it rejects with, or "" when the insert is done.
saveError(connected, coll, doc) ==
    IF ~schemaValid(doc) THEN "ValidationError"
    ELSE IF ~connected THEN "buffering timed out"
    ELSE IF duplicateKey(coll, doc) THEN "E11000 duplicate key"
    ELSE ""

\* Index of the first document whose id is `id`, 0 when there is none.
indexOf(coll, id) ==
    IF \E i \in 1..Len(coll) : coll[i].id = id
    THEN CHOOSE i \in 1..Len(coll) :
            coll[i].id = id /\ \A j \in 1..(i - 1) : coll[j].id # id
    ELSE 0

\* Registration.findOne({ id }): the document, or null.
NoDoc == [id |-> <<>>]

\* Variant: an empty record of that id stands in for a missing document.
findOneOrEmpty(coll, id) == IF indexOf(coll, id) = 0 THEN [id |-> id] ELSE coll[indexOf(coll, id)]

findOne(coll, id) == IF indexOf(coll, id) = 0 THEN NoDoc ELSE coll[indexOf(coll, id)]

\* Strict mode: an update keeps only the paths the schema declares.
castUpdate(set) == [f \in (DOMAIN set) \cap SchemaPaths |-> set[f]]

\* $set applied to one document.
applySet(doc, set) ==
    [f \in (DOMAIN doc) \cup (DOMAIN set) |-> IF f \in DOMAIN set THEN set[f] ELSE doc[f]]

\* Variant: the filter is ignored and every document is updated.
updatedCollAll(coll, id, set) ==
    [i \in 1..Len(coll) |-> applySet(coll[i], castUpdate(set))]

\* Variant: a missing id (findIndex -1) falls on the first document.
updatedCollMissingHitsFirst(coll, id, set) ==
    [i \in 1..Len(coll) |->
        IF i = indexOf(coll, id) \/ (indexOf(coll, id) = 0 /\ i = 1)
        THEN applySet(coll[i], castUpdate(set)) ELSE coll[i]]

\* Registration.findOneAndUpdate({ id }, { $set }, { new: true }): the
\* collection afterwards.
updatedColl(coll, id, set) ==
    [i \in 1..Len(coll) |->
        IF i = indexOf(coll, id) THEN applySet(coll[i], castUpdate(set)) ELSE coll[i]]

\* Variant: the caller is told "not found" when the update modified nothing
\* (a result taken from a modified-count instead of the matched document).
updateResultModifiedOnly(coll, id, set) ==
    IF updatedColl(coll, id, set) = coll THEN NoDoc
    ELSE findOne(updatedColl(coll, id, set), id)

\* What findOneAndUpdate resolves to with { new: true }: the document after
\* the update, or null when none matched.
updateResult(coll, id, set) == findOne(updatedColl(coll, id, set), id)

----------------------------------------------------------------------------
(* State                                                                   *)

NoResp == [op |-> "none", status |-> 0]

Init ==
    /\ dbConnected \in BOOLEAN
    /\ registrationCounter = 1
    /\ store = <<>>
    /\ inflight = EmptyBag
    /\ clock = 0
    /\ requests = 0
    /\ lastResp = NoResp
    /\ accepted = {}

\* A response of POST /api/register; `error` is the error.message field of a
\* 500 body.
RegisterResp(req, status, message, error, id) ==
    [op |-> "register", req |-> req, status |-> status, message |-> message,
     error |-> error, registrationId |-> id]

\* POST /api/register up to `await registration.save()`: the upload
\* middleware, the checks, and the record built from registrationCounter.
RegisterBegin(req, rnd, now) ==
    /\ requests < MaxRequests
    /\ requests' = requests + 1
    /\ clock' = now
    /\ LET up == upload(req.file, now, rnd) IN
       IF up.kind = "error"
       THEN /\ lastResp' = RegisterResp(req, errorHandler(up.error).status,
                                        errorHandler(up.error).message, up.error, <<>>)
            /\ UNCHANGED inflight
       ELSE LET v == validate(req, up) IN
            IF v.kind = "respond"
            THEN /\ lastResp' = RegisterResp(req, v.status, v.message, "", <<>>)
                 /\ UNCHANGED inflight
            ELSE IF v.kind = "throw"
            THEN /\ lastResp' = RegisterResp(req, 500, "Internal server error", v.error, <<>>)
                 /\ UNCHANGED inflight
            ELSE /\ inflight' = inflight (+) SetToBag({
                        [req |-> req, phase |-> "saving", error |-> "",
                         doc |-> newRegistration(req, v.size, up, registrationCounter, now)]})
                 /\ UNCHANGED lastResp
    /\ UNCHANGED <<dbConnected, registrationCounter, store, accepted>>

\* registration.save() takes effect in the store, or is rejected by it.
SaveCommit(p) ==
    /\ BagIn(p, inflight)
    /\ p.phase = "saving"
    /\ LET err == saveError(dbConnected, store, p.doc) IN
       /\ store' = IF err = "" THEN Append(store, p.doc) ELSE store
       /\ inflight' = (inflight (-) SetToBag({p})) (+)
                      SetToBag({[p EXCEPT !.phase = IF err = "" THEN "saved" ELSE "failed",
                                          !.error = err]})
    /\ UNCHANGED <<dbConnected, registrationCounter, clock, requests, lastResp, accepted>>

\* The code after the await: registrationCounter++ and the 201 response, or
\* the catch block's 500.
\* Variant of RegisterFinish with the increment of line 177 moved out of the
\* try block: the counter advances when the save failed as well.
RegisterFinishCountsFailures(p) ==
    /\ BagIn(p, inflight)
    /\ p.phase \in {"saved", "failed"}
    /\ inflight' = inflight (-) SetToBag({p})
    /\ registrationCounter' = registrationCounter + 1
    /\ IF p.phase = "saved"
       THEN /\ lastResp' = RegisterResp(p.req, 201, "Registration submitted successfully!",
                                        "", p.doc.id)
            /\ accepted' = accepted \cup
                 {[registrationId |-> p.doc.id, req |-> p.req,
                   data |-> [teamName |-> p.doc.teamName, teamSize |-> p.doc.teamSize,
                             entryFee |-> p.doc.entryFee,
                             registrationDate |-> p.doc.registrationDate]]}
       ELSE /\ lastResp' = RegisterResp(p.req, 500, "Internal server error", p.error, <<>>)
            /\ UNCHANGED accepted
    /\ UNCHANGED <<dbConnected, store, clock, requests>>

RegisterFinish(p) ==
    /\ BagIn(p, inflight)
    /\ p.phase \in {"saved", "failed"}
    /\ inflight' = inflight (-) SetToBag({p})
    /\ IF p.phase = "saved"
       THEN /\ registrationCounter' = registrationCounter + 1
            /\ lastResp' = RegisterResp(p.req, 201, "Registration submitted successfully!",
                                        "", p.doc.id)
            /\ accepted' = accepted \cup
                 {[registrationId |-> p.doc.id, req |-> p.req,
                   data |-> [teamName |-> p.doc.teamName, teamSize |-> p.doc.teamSize,
                             entryFee |-> p.doc.entryFee,
                             registrationDate |-> p.doc.registrationDate]]}
       ELSE /\ lastResp' = RegisterResp(p.req, 500, "Internal server error", p.error, <<>>)
            /\ UNCHANGED <<registrationCounter, accepted>>
    /\ UNCHANGED <<dbConnected, store, clock, requests>>

\* The answer of GET /api/registrations/:id.
getByIdResponse(connected, coll, id) ==
    IF ~connected
    THEN [op |-> "getById", id |-> id, status |-> 500,
          message |-> "Error fetching registration", registration |-> NoDoc]
    ELSE IF findOne(coll, id) = NoDoc
    THEN [op |-> "getById", id |-> id, status |-> 404,
          message |-> "Registration not found", registration |-> NoDoc]
    ELSE [op |-> "getById", id |-> id, status |-> 200,
          message |-> "", registration |-> findOne(coll, id)]

\* GET /api/registrations/:id
GetById(id) ==
    /\ requests < MaxRequests
    /\ requests' = requests + 1
    /\ lastResp' = getByIdResponse(dbConnected, store, id)
    /\ UNCHANGED <<dbConnected, registrationCounter, store, inflight, clock, accepted>>

\* PATCH /api/registrations/:id/status
UpdateStatus(id, status, now) ==
    /\ requests < MaxRequests
    /\ requests' = requests + 1
    /\ clock' = now
    /\ IF ~dbConnected
       THEN /\ lastResp' = [op |-> "updateStatus", id |-> id, newStatus |-> status,
                            time |-> now, status |-> 500,
                            message |-> "Error updating registration",
                            registration |-> NoDoc]
            /\ UNCHANGED store
       ELSE LET set == [status |-> status, updatedAt |-> now]
                coll == updatedColl(store, id, set)
            IN  /\ store' = coll
                /\ lastResp' =
                     IF updateResult(store, id, set) = NoDoc
                     THEN [op |-> "updateStatus", id |-> id, newStatus |-> status,
                           time |-> now, status |-> 404,
                           message |-> "Registration not found", registration |-> NoDoc]
                     ELSE [op |-> "updateStatus", id |-> id, newStatus |-> status,
                           time |-> now, status |-> 200,
                           message |-> "Registration status updated",
                           registration |-> updateResult(store, id, set)]
    /\ UNCHANGED <<dbConnected, registrationCounter, inflight, accepted>>

\* The ids a client asks for.
IdInputs == { RegId(n) : n \in 1..3 }

\* The values Date.now() may return to the request that arrives next.
Now == { t \in { clock + d : d \in Elapsed } : t <= MaxClock }

Register == \E req \in MainRequests, rnd \in RandomValues, now \in Now : RegisterBegin(req, rnd, now)
Commit == \E p \in BagToSet(inflight) : SaveCommit(p)
Finish == \E p \in BagToSet(inflight) : RegisterFinish(p)
Get == \E id \in IdInputs : GetById(id)
Patch == \E id \in IdInputs, status \in StatusInputs, now \in Now : UpdateStatus(id, status, now)

Next == Register \/ Commit \/ Finish \/ Get \/ Patch

Spec == Init /\ [][Next]_vars

----------------------------------------------------------------------------
(* The checks of POST /api/register over every submission in AllRequests:  *)
(* one submission of MainRequests arrives first, so that the second, drawn *)
(* from AllRequests, meets an empty store, a save in flight or a stored    *)
(* record.                                                                 *)

RegisterFirst ==
    /\ requests = 0
    /\ \E req \in MainRequests, rnd \in RandomValues, now \in Now : RegisterBegin(req, rnd, now)

RegisterAny ==
    /\ requests = 1
    /\ \E req \in AllRequests, rnd \in RandomValues, now \in Now : RegisterBegin(req, rnd, now)

NextValidate == RegisterFirst \/ RegisterAny \/ Commit \/ Finish

SpecValidate == Init /\ [][NextValidate]_vars

----------------------------------------------------------------------------
(* A status update sent twice: a registration, one status update, and then *)
(* the same update again (same id, same status), with the save and the     *)
(* continuation of the registration interleaved anywhere.                  *)

PatchOnce ==
    /\ requests = 1
    /\ \E id \in IdInputs, status \in StatusInputs, now \in Now : UpdateStatus(id, status, now)

PatchAgain ==
    /\ requests = 2
    /\ lastResp.op = "updateStatus"
    /\ \E now \in Now : UpdateStatus(lastResp.id, lastResp.newStatus, now)

NextRepeat == RegisterFirst \/ Commit \/ Finish \/ PatchOnce \/ PatchAgain

SpecRepeat == Init /\ [][NextRepeat]_vars

-----------------------------------------------------------------------------
(* The process is stopped and started again. The module is loaded afresh:  *)
(* registrationCounter is 1 again (line 86), the requests the old process  *)
(* was handling are gone with it, and startServer connects to MongoDB      *)
(* again, successfully or not. The collection is in the database and       *)
(* keeps its documents.                                                    *)
Restart ==
    /\ registrationCounter' = 1
    /\ inflight' = EmptyBag
    /\ dbConnected' \in BOOLEAN
    /\ lastResp' = NoResp
    /\ UNCHANGED <<store, clock, requests, accepted>>

NextRestart == Register \/ Commit \/ Finish \/ Get \/ Restart

SpecRestart == Init /\ [][NextRestart]_vars

----------------------------------------------------------------------------
(* Properties                                                              *)

StoredIds == { store[i].id : i \in 1..Len(store) }

\* C1: under any interleaving of register requests, no two registrations in
\* the store have the same id, and no two 201 responses carry the same
\* registrationId.
C1_UniqueIds ==
    /\ \A i, j \in 1..Len(store) : i # j => store[i].id # store[j].id
    /\ \A a, b \in accepted : a # b => a.registrationId # b.registrationId

\* Two requests built the same id from the same counter value: one is stored,
\* the store has rejected the save of the other.
C1_Witness ==
    \E p \in BagToSet(inflight) :
        /\ p.phase = "failed"
        /\ p.error = "E11000 duplicate key"
        /\ p.doc.id \in StoredIds

\* The submission passes the upload middleware and reaches the handler.
PassesUpload(req) == upload(req.file, 0, 0).kind = "next"

\* A required field is absent or empty.
MissingField(req) ==
    req.teamName = "" \/ req.teamSize = <<>> \/ req.participants.text = ""
      \/ req.portfolioUrl = ""

\* The parsed teamSize is not an integer of [1,3].
OutsideRange(n) == n.nan \/ n.v < 1 \/ n.v > 3

\* The participants parse to an array whose length is not the parsed teamSize.
CountMismatch(req) ==
    /\ req.participants.text = "json"
    /\ req.participants.type = "array"
    /\ (parseInt(req.teamSize).nan \/ Len(req.participants.elems) # parseInt(req.teamSize).v)

\* The fields of the submission fail one of the validation rules: a missing
\* field, teamSize out of range, unparsable participants, participants not
\* an array or of the wrong length, an incomplete or non-object first
\* participant, a missing file.
FieldsFailValidation(req) ==
    \/ MissingField(req)
    \/ OutsideRange(parseInt(req.teamSize))
    \/ req.participants.text # "json"
    \/ req.participants.type # "array"
    \/ Len(req.participants.elems) # parseInt(req.teamSize).v
    \/ req.participants.elems[1].type # "object"
    \/ firstIncomplete(req.participants.elems[1])
    \/ ~req.file.present

StorageErrors == {"buffering timed out", "E11000 duplicate key", "ValidationError"}

\* C2: POST /api/register answers 400 on any validation failure and 500 only
\* on a storage error: a submission that reaches the handler and whose
\* fields fail validation is answered 400, never 500, and is not persisted.
C2_ValidationIs400 ==
    lastResp.op = "register" /\ PassesUpload(lastResp.req) =>
        /\ FieldsFailValidation(lastResp.req) =>
              lastResp.status = 400 /\ lastResp.registrationId = <<>>
        /\ lastResp.status = 500 => lastResp.error \in StorageErrors

\* C3: a submission that reaches the handler with a teamSize whose parsed
\* value is outside [1,3] (0, negative, 4 and above, not a number) is
\* answered 400 and never handed to the store, and every persisted
\* registration has an integer teamSize with 1 <= teamSize <= 3.
C3_TeamSizeRange ==
    /\ lastResp.op = "register" /\ PassesUpload(lastResp.req)
         /\ OutsideRange(parseInt(lastResp.req.teamSize))
       => lastResp.status = 400 /\ lastResp.registrationId = <<>>
    /\ \A p \in BagToSet(inflight) : ~OutsideRange(parseInt(p.req.teamSize))
    /\ \A a \in accepted : ~OutsideRange(parseInt(a.req.teamSize))
    /\ \A i \in 1..Len(store) : ~OutsideRange(store[i].teamSize)

\* A teamSize that does not parse to an integer was rejected with 400 while
\* the store holds a record.
C3_Witness ==
    /\ lastResp.op = "register"
    /\ lastResp.req.teamSize = <<"a", "b", "c">>
    /\ lastResp.req.participants.type = "array"
    /\ ~MissingField(lastResp.req)
    /\ lastResp.status = 400
    /\ Len(store) = 1

\* C4 as stated: every submission whose parsed participant count differs from
\* teamSize is rejected with the count-mismatch error.
C4_CountMismatchError ==
    lastResp.op = "register" /\ PassesUpload(lastResp.req) /\ CountMismatch(lastResp.req)
      => lastResp.status = 400 /\ lastResp.message = "Invalid participants data"

\* C4 (amended): every submission that reaches the handler and whose parsed
\* participant count differs from teamSize is rejected with 400 and is never
\* handed to the store; the error is the count-mismatch error unless an
\* earlier check fails first: 'Missing required fields' when a required
\* field is absent, 'Team size must be between 1 and 3' when the parsed
\* teamSize is an integer outside [1,3].
C4_CountMismatchRejected ==
    /\ lastResp.op = "register" /\ PassesUpload(lastResp.req) /\ CountMismatch(lastResp.req)
       => /\ lastResp.status = 400
          /\ lastResp.registrationId = <<>>
          /\ lastResp.message =
               IF MissingField(lastResp.req) THEN "Missing required fields"
               ELSE IF ~parseInt(lastResp.req.teamSize).nan
                         /\ OutsideRange(parseInt(lastResp.req.teamSize))
               THEN "Team size must be between 1 and 3"
               ELSE "Invalid participants data"
    /\ \A p \in BagToSet(inflight) : ~CountMismatch(p.req)
    /\ \A a \in accepted : ~CountMismatch(a.req)

\* Three participants were submitted with teamSize 2 and the count-mismatch
\* error was answered.
C4_Witness ==
    /\ lastResp.op = "register"
    /\ lastResp.req.teamSize = <<"2">>
    /\ lastResp.req.participants = JsonArray(<<PA, PB, PA>>)
    /\ lastResp.status = 400
    /\ lastResp.message = "Invalid participants data"

\* C5: every persisted registration's participants list has exactly teamSize
\* entries, and no submission with more or fewer participants than teamSize
\* is handed to the store or accepted, neither as it is nor truncated.
C5_ParticipantsMatchTeamSize ==
    /\ \A i \in 1..Len(store) :
          ~store[i].teamSize.nan /\ Len(store[i].participants) = store[i].teamSize.v
    /\ \A p \in BagToSet(inflight) :
          ~parseInt(p.req.teamSize).nan
            /\ Len(p.req.participants.elems) = parseInt(p.req.teamSize).v
    /\ \A a \in accepted :
          ~parseInt(a.req.teamSize).nan
            /\ Len(a.req.participants.elems) = parseInt(a.req.teamSize).v

\* A team of two is stored, and a submission of two participants with
\* teamSize 1 has been refused.
C5_Witness ==
    /\ \E i \in 1..Len(store) : Len(store[i].participants) = 2
    /\ lastResp.op = "register"
    /\ lastResp.req.teamSize = <<"1">>
    /\ lastResp.req.participants = JsonArray(<<PA, PB>>)
    /\ lastResp.status = 400

\* C6: every persisted registration has entryFee = teamSize * 50, also after
\* status updates, and so has every 201 response.
C6_EntryFee ==
    /\ \A i \in 1..Len(store) :
          /\ ~store[i].teamSize.nan /\ ~store[i].entryFee.nan
          /\ store[i].entryFee.v = store[i].teamSize.v * 50
    /\ \A a \in accepted : a.data.entryFee = Num(parseInt(a.req.teamSize).v * 50)

\* A team of two whose status has been updated carries the fee 100.
C6_Witness ==
    \E i \in 1..Len(store) :
        /\ store[i].status # "pending"
        /\ store[i].teamSize = Num(2)
        /\ store[i].entryFee = Num(100)

\* The record of a response carries the fields that were submitted.
SameAsSubmitted(doc, a) ==
    /\ doc.id = a.registrationId
    /\ doc.teamName = a.req.teamName
    /\ doc.teamSize = parseInt(a.req.teamSize)
    /\ doc.participants = a.req.participants.elems
    /\ doc.portfolioUrl = a.req.portfolioUrl
    /\ doc.entryFee = Num(parseInt(a.req.teamSize).v * 50)

\* C7: once a registration has been accepted (201), GET /api/registrations/:id
\* with the returned registrationId finds the record, with the submitted
\* teamName, teamSize (as parsed), participants and portfolioUrl and with
\* entryFee = teamSize * 50, whatever register and status-update requests
\* are interleaved.
C7_RoundTrip ==
    /\ \A a \in accepted :
          dbConnected =>
            /\ getByIdResponse(dbConnected, store, a.registrationId).status = 200
            /\ SameAsSubmitted(
                 getByIdResponse(dbConnected, store, a.registrationId).registration, a)
    /\ lastResp.op = "getById" =>
          \A a \in accepted :
              a.registrationId = lastResp.id =>
                  lastResp.status = 200 /\ SameAsSubmitted(lastResp.registration, a)

\* An accepted registration was fetched after its status had been updated.
C7_Witness ==
    /\ lastResp.op = "getById"
    /\ lastResp.status = 200
    /\ lastResp.registration.status = "approved"
    /\ \E a \in accepted : a.registrationId = lastResp.id

\* C8: a status update for an id that is not in the store writes nothing,
\* the store is the same before and after, and the answer is 404 (when the
\* store is connected and so answers the lookup at all).
C8_UpdateMissingNoWrite ==
    [][\A id \in IdInputs, status \in StatusInputs, now \in 0..MaxClock :
          (id \notin StoredIds /\ UpdateStatus(id, status, now))
            => /\ store' = store
               /\ lastResp'.op = "updateStatus" /\ lastResp'.id = id
               /\ dbConnected => lastResp'.status = 404]_vars

\* A status update for an absent id was answered 404 while the store holds a
\* record.
C8_Witness ==
    /\ lastResp.op = "updateStatus"
    /\ lastResp.status = 404
    /\ Len(store) >= 1
    /\ lastResp.id \notin StoredIds

\* C9: a status update on an existing id sets the record's status to the
\* supplied value and its updatedAt to the time of the update; the record
\* returned to the caller and the stored record carry both.
C9_StatusAndUpdatedAt ==
    lastResp.op = "updateStatus" /\ lastResp.status = 200 =>
        /\ lastResp.registration.status = lastResp.newStatus
        /\ "updatedAt" \in DOMAIN lastResp.registration
        /\ lastResp.registration.updatedAt = lastResp.time
        /\ "updatedAt" \in DOMAIN findOne(store, lastResp.id)

\* The fields of a record other than status and updatedAt.
FrameFields(doc) == (DOMAIN doc) \ {"status", "updatedAt"}

\* C10: a stored record changes only in a status update of its own id, and
\* then only in status and updatedAt; every other field of it and every
\* other record stay as they are, no record is removed and none changes its
\* place or id.
C10_OnlyStatusMutates ==
    [][/\ Len(store') >= Len(store)
       /\ \A i \in 1..Len(store) :
            /\ \A f \in FrameFields(store[i]) :
                  f \in DOMAIN store'[i] /\ store'[i][f] = store[i][f]
            /\ store'[i] # store[i] =>
                  \E status \in StatusInputs, now \in 0..MaxClock :
                      UpdateStatus(store[i].id, status, now)]_vars

\* Two records are stored and a status update has changed one of them only.
C10_Witness ==
    /\ Len(store) = 2
    /\ lastResp.op = "updateStatus"
    /\ lastResp.status = 200
    /\ \E i, j \in 1..2 : store[i].status = "approved" /\ store[j].status = "pending"

\* The record apart from its updatedAt timestamp.
ApartFromUpdatedAt(doc) == [f \in (DOMAIN doc) \ {"updatedAt"} |-> doc[f]]

\* C11: repeating a status update is idempotent: when updateStatus(id, s) has
\* been answered 200 and the same update is applied again, the second call
\* is answered 200 too and leaves every record, and the record it returns,
\* as the first call left them, apart from the updatedAt value.
C11_RepeatIdempotent ==
    [][\A now \in 0..MaxClock :
          (/\ lastResp.op = "updateStatus"
           /\ lastResp.status = 200
           /\ UpdateStatus(lastResp.id, lastResp.newStatus, now))
          => /\ lastResp'.status = 200
             /\ ApartFromUpdatedAt(lastResp'.registration)
                  = ApartFromUpdatedAt(lastResp.registration)
             /\ Len(store') = Len(store)
             /\ \A i \in 1..Len(store) :
                   ApartFromUpdatedAt(store'[i]) = ApartFromUpdatedAt(store[i])]_vars

\* The same status update has been applied twice to the stored record and
\* answered 200.
C11_Witness ==
    /\ requests = 3
    /\ lastResp.op = "updateStatus"
    /\ lastResp.status = 200
    /\ findOne(store, lastResp.id).status = "approved"

\* C12: GET /api/registrations/:id for an id that is not in the store answers
\* 404 (when the store is connected and so answers the lookup at all) and in
\* no case returns a record; for an id that is in the store it answers 200
\* with exactly the stored record of that id.
C12_GetById ==
    [][\A id \in IdInputs :
          GetById(id) =>
             /\ lastResp'.op = "getById" /\ lastResp'.id = id
             /\ id \notin StoredIds =>
                   /\ lastResp'.status # 200
                   /\ lastResp'.registration = NoDoc
                   /\ dbConnected => lastResp'.status = 404
             /\ id \in StoredIds =>
                   /\ lastResp'.status = 200
                   /\ lastResp'.registration.id = id
                   /\ \E i \in 1..Len(store) : lastResp'.registration = store[i]]_vars

\* A lookup of an absent id was answered 404 while the store holds a record.
C12_Witness ==
    /\ lastResp.op = "getById"
    /\ lastResp.status = 404
    /\ lastResp.id \notin StoredIds
    /\ Len(store) >= 1

\* The media type of the uploaded file is neither image/* nor application/pdf.
WrongMediaType(file) ==
    file.present /\ file.type # "image"
      /\ ~(file.type = "application" /\ file.subtype = "pdf")

\* The uploaded file is larger than 5 MB.
Oversize(file) == file.present /\ file.size > 5 * 1024 * 1024

\* C13: attachment errors are answered 400: an upload of a media type that
\* is neither image/* nor application/pdf, and an upload larger than 5 MB
\* (that one with the file-too-large message), and in neither case is a
\* registration handed to the store.
C13_AttachmentErrorsAre400 ==
    /\ lastResp.op = "register"
         /\ (WrongMediaType(lastResp.req.file) \/ Oversize(lastResp.req.file))
       => /\ lastResp.status = 400
          /\ lastResp.registrationId = <<>>
          /\ (Oversize(lastResp.req.file) /\ ~WrongMediaType(lastResp.req.file))
                => lastResp.message = "File too large. Max size 5MB."
    /\ \A p \in BagToSet(inflight) :
          ~WrongMediaType(p.req.file) /\ ~Oversize(p.req.file)

\* The six checks of the register handler, as the claim names them.
RangeCheckFails(req) ==
    ~parseInt(req.teamSize).nan /\ OutsideRange(parseInt(req.teamSize))
ParseCheckFails(req) == req.participants.text # "json"
CountCheckFails(req) ==
    \/ req.participants.type # "array"
    \/ parseInt(req.teamSize).nan
    \/ Len(req.participants.elems) # parseInt(req.teamSize).v
FirstParticipantCheckFails(req) ==
    \/ req.participants.elems[1].type # "object"
    \/ \E f \in {"name", "email", "phone", "college", "departmentYear"} :
          req.participants.elems[1][f] = ""
AttachmentCheckFails(req) == ~req.file.present

\* The error of the first check that fails, "" when all six pass.
FirstFailure(req) ==
    IF MissingField(req) THEN "Missing required fields"
    ELSE IF RangeCheckFails(req) THEN "Team size must be between 1 and 3"
    ELSE IF ParseCheckFails(req) THEN "Invalid participants data format"
    ELSE IF CountCheckFails(req) THEN "Invalid participants data"
    ELSE IF FirstParticipantCheckFails(req) THEN "First participant information is incomplete"
    ELSE IF AttachmentCheckFails(req) THEN "Payment screenshot is required"
    ELSE ""

\* C14: the register handler applies its checks in the order missing field,
\* teamSize range, participants parse, participant count, first-participant
\* fields, missing attachment; a submission that reaches the handler is
\* answered 400 with the error of the first check that fails, and it is
\* handed to the store only if all six checks pass.
C14_CheckOrder ==
    /\ lastResp.op = "register" /\ PassesUpload(lastResp.req)
         /\ FirstFailure(lastResp.req) # ""
       => lastResp.status = 400 /\ lastResp.message = FirstFailure(lastResp.req)
    /\ \A p \in BagToSet(inflight) : FirstFailure(p.req) = ""
    /\ \A a \in accepted : FirstFailure(a.req) = ""

\* The submission is one that validation rejects: the upload middleware
\* refuses its file or one of the six checks fails.
Rejected(req) == ~PassesUpload(req) \/ FirstFailure(req) # ""

\* The register request `req` arrives in this step.
Arrives(req) ==
    \E rnd \in RandomValues, now \in 0..MaxClock : RegisterBegin(req, rnd, now)

\* The submissions that may have arrived in a step: the one just answered and
\* those awaiting their save.
Candidates(resp, pending) ==
    (IF resp.op = "register" THEN {resp.req} ELSE {})
      \cup { p.req : p \in BagToSet(pending) }

\* C15: validation has no side effects: the arrival of a submission that
\* validation rejects leaves the stored registrations and
\* registrationCounter as they were, starts no save and records no
\* acceptance.
C15_RejectionNoSideEffect ==
    [][\A req \in Candidates(lastResp', inflight') :
          (Rejected(req) /\ Arrives(req))
            => /\ store' = store
               /\ registrationCounter' = registrationCounter
               /\ inflight' = inflight
               /\ accepted' = accepted
               /\ lastResp'.op = "register" /\ lastResp'.req = req
               /\ lastResp'.status # 201]_vars

\* A submission was rejected with 400 after a registration had been stored
\* and counted; store and counter still show that one registration.
C15_Witness ==
    /\ lastResp.op = "register"
    /\ lastResp.status = 400
    /\ Rejected(lastResp.req)
    /\ requests = 2
    /\ Len(store) = 1
    /\ registrationCounter = 2

\* ---------------------------------------------------------------------------
\* C16: from an empty store in one process, under every interleaving of
\* requests, registrationCounter never decreases, it grows by one exactly in
\* the step that completes a request whose save succeeded and in no other
\* step, the stored ids are exactly REG-0001 .. REG-n for n the number of
\* stored records, and n = registrationCounter - 1 whenever no request stands
\* between its completed save and its increment of the counter.
SavedNotCounted == { p \in BagToSet(inflight) : p.phase = "saved" }
CompletesSave ==
    \E p \in BagToSet(inflight) :
        /\ p.phase = "saved"
        /\ inflight' = inflight (-) SetToBag({p})
        /\ lastResp'.op = "register" /\ lastResp'.status = 201
SequentialIds ==
    /\ StoredIds = { RegId(k) : k \in 1..Len(store) }
    /\ Cardinality(StoredIds) = Len(store)
    /\ SavedNotCounted = {} => Len(store) = registrationCounter - 1
    /\ Len(store) \in {registrationCounter - 1, registrationCounter}
CounterSteps ==
    /\ registrationCounter' \in {registrationCounter, registrationCounter + 1}
    /\ (registrationCounter' = registrationCounter + 1) <=> CompletesSave
    /\ Len(store') > Len(store) =>
          /\ Len(store') = Len(store) + 1
          /\ registrationCounter' = registrationCounter
          /\ Cardinality({ p \in BagToSet(inflight') : p.phase = "saved" })
               = Cardinality(SavedNotCounted) + 1
C16_SequentialIds == [][SequentialIds /\ SequentialIds' /\ CounterSteps]_vars
C16_Witness ==
    /\ registrationCounter = 3 /\ Len(store) = 2 /\ inflight = EmptyBag
    /\ lastResp.op = "register" /\ lastResp.status = 500
    /\ Cardinality(accepted) = 2

\* ---------------------------------------------------------------------------
\* C17: a create whose save the store refuses for a duplicate id is answered
\* 500, stores nothing and leaves registrationCounter as it was; and once the
\* process has restarted (counter back at 1) against a store that holds
\* REG-0001, the counter stays at 1, the store and the accepted responses
\* never change again, and every submission that passes validation is
\* answered 500.
CounterBehindStore ==
    /\ registrationCounter = 1
    /\ RegId(1) \in StoredIds
    /\ SavedNotCounted = {}
AnswersSave(p) ==
    /\ BagIn(p, inflight)
    /\ p.phase \in {"saved", "failed"}
    /\ inflight' = inflight (-) SetToBag({p})
    /\ lastResp'.op = "register" /\ lastResp'.req = p.req
SaveRefused(p) ==
    /\ BagIn(p, inflight)
    /\ p.phase = "saving"
    /\ inflight' = (inflight (-) SetToBag({p})) (+)
                   SetToBag({[p EXCEPT !.phase = "failed",
                                       !.error = "E11000 duplicate key"]})
DuplicateRefused ==
    \A p \in BagToSet(inflight) :
        /\ SaveRefused(p) => store' = store /\ registrationCounter' = registrationCounter
        /\ (p.phase = "failed" /\ p.error = "E11000 duplicate key" /\ AnswersSave(p))
             => /\ lastResp'.status = 500
                /\ store' = store
                /\ accepted' = accepted
                /\ registrationCounter' = registrationCounter
NeverAcceptedAgain ==
    CounterBehindStore =>
        /\ registrationCounter' = 1
        /\ store' = store
        /\ accepted' = accepted
        /\ \A p \in BagToSet(inflight) :
              AnswersSave(p) => lastResp'.status = 500 /\ ~Rejected(p.req)
        /\ \A p \in BagToSet(inflight') : p.doc.id = RegId(1)
C17_StuckAfterRestart == [][DuplicateRefused /\ NeverAcceptedAgain]_vars
C17_Witness ==
    /\ CounterBehindStore /\ dbConnected /\ inflight = EmptyBag
    /\ lastResp.op = "register" /\ lastResp.status = 500
    /\ lastResp.error = "E11000 duplicate key"
    /\ ~Rejected(lastResp.req)

====
